---- MODULE Spec2Model ----
(***************************************************************************)
(* A model of the datadog-env-logger crate (src/src/lib.rs): the record    *)
(* format closure built by formatted_builder, run by several threads over  *)
(* the process-wide MAX_MODULE_WIDTH, and the one-time initializer         *)
(* try_init / try_init_custom_env.                                         *)
(*                                                                         *)
(* Text is a sequence of one-character strings.  An ANSI escape sequence   *)
(* is one element of display width 0.  Module paths are ASCII, so the byte *)
(* length (str::len) and the character count used by the padding agree.    *)
(* MAX_MODULE_WIDTH is one atomic location accessed with Relaxed loads and *)
(* stores: each access is one step on a single total order.                *)
(***************************************************************************)
EXTENDS Naturals, Sequences, FiniteSets, TLC

\* ------------------------------------------------------------- bounds
NumThreads == 2
MaxModuleLen == 2
MaxLines == 2
NumCallers == 3

VARIABLES
    MAX_MODULE_WIDTH, \* static AtomicUsize
    pc,               \* per thread: position in the format closure
    record,           \* per thread: the record being formatted
    max_width,        \* per thread: the local max_width
    loaded,           \* per thread: the values this call's loads returned (history)
    sent,             \* per thread: this call's dog.event attempts, each with its outcome
    wrote,            \* per thread: this call's writeln! attempts, each by its outcome
    f,                \* per thread: the Formatter buffer the closure writes to
    result,           \* per thread: what the call returned
    dest,             \* the shared destination stream, a sequence of chunks
    seen,             \* module-path lengths of all format calls started (history)
    env,              \* the process environment: variable name -> value or Unset
    logger,           \* log crate's global logger slot
    ipc,              \* per caller: position in try_init_custom_env
    envName,          \* per caller: environment_variable_name
    builder,          \* per caller: the env_logger Builder being configured
    installed,        \* per caller: what builder.try_init() returned
    iresult,          \* per caller: what try_init_custom_env returned
    order             \* callers in the order they reached installation (history)

fmtVars == <<MAX_MODULE_WIDTH, pc, record, max_width, loaded, sent, wrote, f,
             result, dest, seen>>
initVars == <<env, logger, ipc, envName, builder, installed, iresult, order>>
vars == <<MAX_MODULE_WIDTH, pc, record, max_width, loaded, sent, wrote, f,
          result, dest, seen, env, logger, ipc, envName, builder,
          installed, iresult, order>>

Threads == 1..NumThreads
Callers == 1..NumCallers

NoValue == "NoValue"

\* ------------------------------------------------------------- text
Spaces(n) == [i \in 1..n |-> " "]

Levels == {"Trace", "Debug", "Info", "Warn", "Error"}

\* impl fmt::Display for ColorLevel: Color::X.paint(code) writes the colour's
\* escape, the code, and the reset.
ColorLevel(level) ==
    CASE level = "Trace" -> <<"ESC[35m", "T", "R", "C", "ESC[0m">>
      [] level = "Debug" -> <<"ESC[34m", "D", "B", "G", "ESC[0m">>
      [] level = "Info"  -> <<"ESC[32m", "L", "O", "G", "ESC[0m">>
      [] level = "Warn"  -> <<"ESC[33m", "W", "R", "N", "ESC[0m">>
      [] level = "Error" -> <<"ESC[31m", "E", "R", "R", "ESC[0m">>

\* A table that names Warn as the facade does.
DogLevelWarn(level) ==
    CASE level = "Trace" -> <<"t", "r", "a", "c", "e">>
      [] level = "Debug" -> <<"d", "e", "b", "u", "g">>
      [] level = "Info"  -> <<"i", "n", "f", "o">>
      [] level = "Warn"  -> <<"w", "a", "r", "n">>
      [] level = "Error" -> <<"e", "r", "r", "o", "r">>

\* impl fmt::Display for DogLevel
DogLevel(level) ==
    CASE level = "Trace" -> <<"t", "r", "a", "c", "e">>
      [] level = "Debug" -> <<"d", "e", "b", "u", "g">>
      [] level = "Info"  -> <<"i", "n", "f", "o">>
      [] level = "Warn"  -> <<"w", "a", "r", "n", "i", "n", "g">>
      [] level = "Error" -> <<"e", "r", "r", "o", "r">>

\* format!("{: <width$}", s, width = w): left-aligned, filled with spaces up
\* to w columns, never truncated.
PadLeftAligned(s, w) == s \o Spaces(IF Len(s) < w THEN w - Len(s) ELSE 0)

\* Style::new().bold().paint(s)
Bold(s) == <<"ESC[1m">> \o s \o <<"ESC[0m">>

\* vec![format!("level:{}", DogLevel(level)), format!("module:{}", module_path)]
Tags(level, module_path) ==
    << <<"l", "e", "v", "e", "l", ":">> \o DogLevel(level),
       <<"m", "o", "d", "u", "l", "e", ":">> \o module_path >>

\* The arguments of dog.event(module_path, &format!("{}", record.args()), tags)
Event(r) == [name |-> r.module_path[1], text |-> r.args,
             tags |-> Tags(r.level, r.module_path[1])]

\* writeln!(f, " {} {} > {}", ColorLevel, bold padded module, args)
ModuleLine(r, width) ==
    <<" ">> \o ColorLevel(r.level) \o <<" ">>
        \o Bold(PadLeftAligned(r.module_path[1], width))
        \o <<" ", ">", " ">> \o r.args \o <<"\n">>

\* writeln!(f, " {} > {}", ColorLevel, args)
PlainLine(r) ==
    <<" ">> \o ColorLevel(r.level) \o <<" ", ">", " ">> \o r.args \o <<"\n">>

\* ------------------------------------------------------------- records
ModulePath(n) == [i \in 1..n |-> "m"]

\* A message of k lines joined by "\n".
RECURSIVE Message(_)
Message(k) == IF k <= 1 THEN <<"x">> ELSE Message(k - 1) \o <<"\n", "y">>

\* record.module_path() is an Option: <<>> is None, <<m>> is Some(m).
ModulePaths == {<<>>} \cup {<<ModulePath(n)>> : n \in 1..MaxModuleLen}

Messages == {Message(k) : k \in 1..MaxLines}

Records == [level : Levels, module_path : ModulePaths, args : Messages]

\* Neither the level nor the message takes part in the closure's control
\* flow: the threads of the concurrent specification log at one level a
\* one-line or the longest message, SpecOne covers every record.
ConcurrentRecords ==
    {r \in Records : r.level = "Info" /\ r.args \in {Message(1), Message(MaxLines)}}

NoRecord == [level |-> "Info", module_path |-> <<>>, args |-> <<>>]

HasModule(r) == r.module_path # <<>>

ModuleOf(r) == r.module_path[1]

\* ------------------------------------------------------------- format closure
\* The logging facade invokes the closure of builder.format for one record.
\* The closure keeps nothing per thread, so a thread's later call is the
\* call of another thread: each thread makes one.
Call(t, r) ==
    /\ pc[t] = "idle"
    /\ record' = [record EXCEPT ![t] = r]
    /\ max_width' = [max_width EXCEPT ![t] = 0]
    /\ loaded' = [loaded EXCEPT ![t] = <<>>]
    /\ sent' = [sent EXCEPT ![t] = <<>>]
    /\ wrote' = [wrote EXCEPT ![t] = <<>>]
    /\ f' = [f EXCEPT ![t] = <<>>]
    /\ result' = [result EXCEPT ![t] = NoValue]
    /\ seen' = IF HasModule(r) THEN seen \cup {Len(ModuleOf(r))} ELSE seen
    /\ pc' = [pc EXCEPT ![t] = IF HasModule(r) THEN "load" ELSE "plain"]
    /\ UNCHANGED <<MAX_MODULE_WIDTH, dest>>
    /\ UNCHANGED initVars

\* let mut max_width = MAX_MODULE_WIDTH.load(Relaxed); if max_width < module_path.len()
Load(t) ==
    /\ pc[t] = "load"
    /\ max_width' = [max_width EXCEPT ![t] = MAX_MODULE_WIDTH]
    /\ loaded' = [loaded EXCEPT ![t] = Append(@, MAX_MODULE_WIDTH)]
    /\ pc' = [pc EXCEPT ![t] =
                 IF MAX_MODULE_WIDTH < Len(ModuleOf(record[t]))
                 THEN "store" ELSE "event"]
    /\ UNCHANGED <<MAX_MODULE_WIDTH, record, sent, wrote, f, result, dest,
                   seen>>
    /\ UNCHANGED initVars

\* A store that forgets to raise the local max_width.
StoreKeepsLocal(t) ==
    /\ pc[t] = "store"
    /\ MAX_MODULE_WIDTH' = Len(ModuleOf(record[t]))
    /\ pc' = [pc EXCEPT ![t] = "event"]
    /\ UNCHANGED <<max_width, record, loaded, sent, wrote, f, result, dest,
                   seen>>
    /\ UNCHANGED initVars

\* MAX_MODULE_WIDTH.store(module_path.len(), Relaxed); max_width = module_path.len();
Store(t) ==
    /\ pc[t] = "store"
    /\ MAX_MODULE_WIDTH' = Len(ModuleOf(record[t]))
    /\ max_width' = [max_width EXCEPT ![t] = Len(ModuleOf(record[t]))]
    /\ pc' = [pc EXCEPT ![t] = "event"]
    /\ UNCHANGED <<record, loaded, sent, wrote, f, result, dest, seen>>
    /\ UNCHANGED initVars

\* A forward that tries a second time when the first send fails.
ForwardRetry(t, ok) ==
    /\ pc[t] = "event"
    /\ sent' = [sent EXCEPT ![t] =
                   IF ok THEN Append(@, [event |-> Event(record[t]), ok |-> TRUE])
                   ELSE @ \o << [event |-> Event(record[t]), ok |-> FALSE],
                                [event |-> Event(record[t]), ok |-> TRUE] >>]
    /\ pc' = [pc EXCEPT ![t] = "write"]
    /\ UNCHANGED <<MAX_MODULE_WIDTH, record, max_width, loaded, wrote, f,
                   result, dest, seen>>
    /\ UNCHANGED initVars

\* dog.event(module_path, &format!("{}", record.args()), tags).unwrap();
\* ok is whether the client's send succeeded; unwrap panics on an Err.
Forward(t, ok) ==
    /\ pc[t] = "event"
    /\ sent' = [sent EXCEPT ![t] =
                   Append(@, [event |-> Event(record[t]), ok |-> ok])]
    /\ pc' = [pc EXCEPT ![t] = IF ok THEN "write" ELSE "panicked"]
    /\ UNCHANGED <<MAX_MODULE_WIDTH, record, max_width, loaded, wrote, f,
                   result, dest, seen>>
    /\ UNCHANGED initVars

\* A write whose header goes straight to the shared stream, ahead of the
\* body left in the buffer.
WriteModuleSplit(t, ok) ==
    /\ pc[t] = "write"
    /\ wrote' = [wrote EXCEPT ![t] = Append(@, IF ok THEN "Ok" ELSE "Err")]
    /\ result' = [result EXCEPT ![t] = IF ok THEN "Ok" ELSE "Err"]
    /\ f' = [f EXCEPT ![t] = IF ok THEN record[t].args \o <<"\n">> ELSE @]
    /\ dest' = IF ok
               THEN Append(dest, [call |-> t,
                                  bytes |-> <<" ">> \o ColorLevel(record[t].level)])
               ELSE dest
    /\ pc' = [pc EXCEPT ![t] = IF ok THEN "print" ELSE "returned"]
    /\ UNCHANGED <<MAX_MODULE_WIDTH, record, max_width, loaded, sent, seen>>
    /\ UNCHANGED initVars

\* A write whose error is dropped.
WriteModuleSwallow(t, ok) ==
    /\ pc[t] = "write"
    /\ wrote' = [wrote EXCEPT ![t] = Append(@, IF ok THEN "Ok" ELSE "Err")]
    /\ result' = [result EXCEPT ![t] = "Ok"]
    /\ f' = [f EXCEPT ![t] = IF ok THEN ModuleLine(record[t], max_width[t]) ELSE @]
    /\ pc' = [pc EXCEPT ![t] = "print"]
    /\ UNCHANGED <<MAX_MODULE_WIDTH, record, max_width, loaded, sent, dest,
                   seen>>
    /\ UNCHANGED initVars

\* writeln!(f, " {} {} > {}", ...) as the closure's value, module branch.
\* ok is whether the write to the formatter succeeded.
WriteModule(t, ok) ==
    /\ pc[t] = "write"
    /\ wrote' = [wrote EXCEPT ![t] = Append(@, IF ok THEN "Ok" ELSE "Err")]
    /\ result' = [result EXCEPT ![t] = IF ok THEN "Ok" ELSE "Err"]
    /\ f' = [f EXCEPT ![t] = IF ok THEN ModuleLine(record[t], max_width[t]) ELSE @]
    /\ pc' = [pc EXCEPT ![t] = IF ok THEN "print" ELSE "returned"]
    /\ UNCHANGED <<MAX_MODULE_WIDTH, record, max_width, loaded, sent, dest,
                   seen>>
    /\ UNCHANGED initVars

\* writeln!(f, " {} > {}", ...) as the closure's value, module-less branch.
WritePlain(t, ok) ==
    /\ pc[t] = "plain"
    /\ wrote' = [wrote EXCEPT ![t] = Append(@, IF ok THEN "Ok" ELSE "Err")]
    /\ result' = [result EXCEPT ![t] = IF ok THEN "Ok" ELSE "Err"]
    /\ f' = [f EXCEPT ![t] = IF ok THEN PlainLine(record[t]) ELSE @]
    /\ pc' = [pc EXCEPT ![t] = IF ok THEN "print" ELSE "returned"]
    /\ UNCHANGED <<MAX_MODULE_WIDTH, record, max_width, loaded, sent, dest,
                   seen>>
    /\ UNCHANGED initVars

\* After an Ok from the closure the facade hands the whole buffer to the
\* destination in one write made under the stream's lock, and clears it.
PrintBuffer(t) ==
    /\ pc[t] = "print"
    /\ dest' = Append(dest, [call |-> t, bytes |-> f[t]])
    /\ f' = [f EXCEPT ![t] = <<>>]
    /\ pc' = [pc EXCEPT ![t] = "returned"]
    /\ UNCHANGED <<MAX_MODULE_WIDTH, record, max_width, loaded, sent, wrote,
                   result, seen>>
    /\ UNCHANGED initVars

\* ------------------------------------------------------------- initializer
Unset == "Unset"

EnvNames == {"RUST_LOG", "APP_LOG"}

Directives == {"info"}

\* pub fn try_init_custom_env(environment_variable_name: &str)
try_init_custom_env(c, name) ==
    /\ ipc[c] = "start"
    /\ envName' = [envName EXCEPT ![c] = name]
    /\ ipc' = [ipc EXCEPT ![c] = "build"]
    /\ UNCHANGED <<env, logger, builder, installed, iresult, order>>
    /\ UNCHANGED fmtVars

\* pub fn try_init() { try_init_custom_env("RUST_LOG") }
try_init(c) == try_init_custom_env(c, "RUST_LOG")

\* let mut builder = formatted_builder()?;  Builder::new(), then
\* Client::new(Options::default()).unwrap(), which panics when ok is FALSE.
formatted_builder(c, ok) ==
    /\ ipc[c] = "build"
    /\ builder' = [builder EXCEPT ![c] = IF ok THEN <<"default">> ELSE @]
    /\ ipc' = [ipc EXCEPT ![c] = IF ok THEN "env" ELSE "panicked"]
    /\ UNCHANGED <<env, logger, envName, installed, iresult, order>>
    /\ UNCHANGED fmtVars

\* if let Ok(s) = env::var(environment_variable_name) { builder.parse(&s); }
ParseEnv(c) ==
    /\ ipc[c] = "env"
    /\ builder' = [builder EXCEPT ![c] =
                      IF env[envName[c]] # Unset THEN <<env[envName[c]]>> ELSE @]
    /\ ipc' = [ipc EXCEPT ![c] = "install"]
    /\ UNCHANGED <<env, logger, envName, installed, iresult, order>>
    /\ UNCHANGED fmtVars

\* builder.try_init(): the facade's set-once installation.  The first
\* caller to arrive fills the empty slot; any later one gets SetLoggerError
\* and the slot keeps its logger.
BuilderTryInit(c) ==
    /\ ipc[c] = "install"
    /\ logger' = IF logger = <<>>
                 THEN << [owner |-> c, filter |-> builder[c][1]] >>
                 ELSE logger
    /\ installed' = [installed EXCEPT ![c] =
                        IF logger = <<>> THEN "Ok" ELSE "SetLoggerError"]
    /\ order' = Append(order, c)
    /\ ipc' = [ipc EXCEPT ![c] = "return"]
    /\ UNCHANGED <<env, envName, builder, iresult>>
    /\ UNCHANGED fmtVars

\* A return that reports success whatever the installation said.
ReturnInitAlwaysOk(c) ==
    /\ ipc[c] = "return"
    /\ iresult' = [iresult EXCEPT ![c] = "Ok"]
    /\ ipc' = [ipc EXCEPT ![c] = "done"]
    /\ UNCHANGED <<env, logger, envName, builder, installed, order>>
    /\ UNCHANGED fmtVars

\* try_init_custom_env's value is that of builder.try_init(), its tail
\* expression.
ReturnInit(c) ==
    /\ ipc[c] = "return"
    /\ iresult' = [iresult EXCEPT ![c] = installed[c]]
    /\ ipc' = [ipc EXCEPT ![c] = "done"]
    /\ UNCHANGED <<env, logger, envName, builder, installed, order>>
    /\ UNCHANGED fmtVars

\* ------------------------------------------------------------- specifications
InitFormat ==
    /\ MAX_MODULE_WIDTH = 0
    /\ pc = [t \in Threads |-> "idle"]
    /\ record = [t \in Threads |-> NoRecord]
    /\ max_width = [t \in Threads |-> 0]
    /\ loaded = [t \in Threads |-> <<>>]
    /\ sent = [t \in Threads |-> <<>>]
    /\ wrote = [t \in Threads |-> <<>>]
    /\ f = [t \in Threads |-> <<>>]
    /\ result = [t \in Threads |-> NoValue]
    /\ dest = <<>>
    /\ seen = {}

InitInitializer ==
    /\ logger = <<>>
    /\ ipc = [c \in Callers |-> "start"]
    /\ envName = [c \in Callers |-> "RUST_LOG"]
    /\ builder = [c \in Callers |-> <<>>]
    /\ installed = [c \in Callers |-> NoValue]
    /\ iresult = [c \in Callers |-> NoValue]
    /\ order = <<>>

\* Threads logging through the format closure; the environment plays no part.
Init ==
    /\ InitFormat
    /\ InitInitializer
    /\ env = [n \in EnvNames |-> Unset]

Next ==
    \E t \in Threads :
        \/ \E r \in ConcurrentRecords : Call(t, r)
        \/ Load(t)
        \/ Store(t)
        \/ \E ok \in BOOLEAN : Forward(t, ok)
        \/ \E ok \in BOOLEAN : WriteModule(t, ok)
        \/ \E ok \in BOOLEAN : WritePlain(t, ok)
        \/ PrintBuffer(t)

Spec == Init /\ [][Next]_vars

\* One thread formatting one record of any level.
NextOne ==
    \/ \E r \in Records : Call(1, r)
    \/ Load(1)
    \/ Store(1)
    \/ \E ok \in BOOLEAN : Forward(1, ok)
    \/ \E ok \in BOOLEAN : WriteModule(1, ok)
    \/ \E ok \in BOOLEAN : WritePlain(1, ok)
    \/ PrintBuffer(1)

SpecOne == Init /\ [][NextOne]_vars

\* Callers racing to initialize, each variable of the environment set or not.
InitI ==
    /\ InitFormat
    /\ InitInitializer
    /\ env \in [EnvNames -> Directives \cup {Unset}]

NextI ==
    \E c \in Callers :
        \/ try_init(c)
        \/ \E name \in EnvNames : try_init_custom_env(c, name)
        \/ \E ok \in BOOLEAN : formatted_builder(c, ok)
        \/ ParseEnv(c)
        \/ BuilderTryInit(c)
        \/ ReturnInit(c)

SpecI == InitI /\ [][NextI]_vars

\* ------------------------------------------------------------- properties
Finished(t) == pc[t] \in {"returned", "panicked"}

Max(a, b) == IF a < b THEN b ELSE a

MaxOf(S) == IF S = {} THEN 0 ELSE CHOOSE m \in S : \A x \in S : x <= m

\* The elements that stand for an ANSI escape sequence.
Escapes == {"ESC[35m", "ESC[34m", "ESC[32m", "ESC[33m", "ESC[31m", "ESC[1m", "ESC[0m"}

\* Number of elements of s that occupy a column.
RECURSIVE DisplayWidth(_)
DisplayWidth(s) ==
    IF s = <<>> THEN 0
    ELSE (IF Head(s) \in Escapes THEN 0 ELSE 1) + DisplayWidth(Tail(s))

\* s split at "\n" into its lines.
RECURSIVE SplitLines(_)
SplitLines(s) ==
    IF \A i \in 1..Len(s) : s[i] # "\n" THEN <<s>>
    ELSE LET k == CHOOSE i \in 1..Len(s) :
                      s[i] = "\n" /\ \A j \in 1..(i - 1) : s[j] # "\n"
         IN  <<SubSeq(s, 1, k - 1)>> \o SplitLines(SubSeq(s, k + 1, Len(s)))

\* What thread t's call has put on the destination, in order.
RECURSIVE BytesOn(_, _)
BytesOn(d, t) ==
    IF d = <<>> THEN <<>>
    ELSE (IF Head(d).call = t THEN Head(d).bytes ELSE <<>>) \o BytesOn(Tail(d), t)

\* C1: once every started format call has returned, MAX_MODULE_WIDTH is the
\* largest module-path length among the records formatted.
C1_NoLostMaximum ==
    (\A t \in Threads : pc[t] \in {"idle", "returned"})
        => MAX_MODULE_WIDTH = MaxOf(seen)

\* C2: no step of any execution lowers MAX_MODULE_WIDTH.
C2_NeverShrinks == [][MAX_MODULE_WIDTH' >= MAX_MODULE_WIDTH]_vars

\* C3: a format call whose event send failed does not panic: it ends by
\* returning Ok with its line on the destination.
C3_FailedForwardStillWrites ==
    \A t \in Threads :
        (Finished(t) /\ \E i \in 1..Len(sent[t]) : ~sent[t][i].ok)
            => /\ pc[t] = "returned"
               /\ result[t] = "Ok"
               /\ BytesOn(dest, t) # <<>>

\* C5: a format call makes one send attempt when its record has a module
\* path and none when it has not, and at most one write attempt.
C5_ForwardingCount ==
    \A t \in Threads :
        /\ Len(sent[t]) <= 1
        /\ Len(wrote[t]) <= 1
        /\ ~HasModule(record[t]) => sent[t] = <<>>
        /\ (HasModule(record[t]) /\ (Finished(t) \/ pc[t] \in {"write", "print"}))
               => Len(sent[t]) = 1

C5_Witness ==
    \E t, u \in Threads :
        /\ pc[t] = "returned" /\ HasModule(record[t])
        /\ Len(sent[t]) = 1 /\ Len(wrote[t]) = 1
        /\ pc[u] = "returned" /\ ~HasModule(record[u]) /\ record[u] # NoRecord
        /\ sent[u] = <<>> /\ Len(wrote[u]) = 1

\* C6: a format call whose write to the destination failed returns the
\* error, with or without a module path.
C6_WriteErrorPropagates ==
    \A t \in Threads :
        (\E i \in 1..Len(wrote[t]) : wrote[t][i] = "Err")
            => (pc[t] = "returned" /\ result[t] = "Err")

C6_Witness ==
    \E t, u \in Threads :
        /\ HasModule(record[t]) /\ wrote[t] = <<"Err">> /\ result[t] = "Err"
        /\ ~HasModule(record[u]) /\ wrote[u] = <<"Err">> /\ result[u] = "Err"

\* C7: in the output of a record whose message has several lines, every line
\* after the first is the message line behind as many spaces as the header
\* is wide.
C7_ContinuationIndent ==
    \A t \in Threads :
        (pc[t] = "print" /\ Len(SplitLines(record[t].args)) > 1)
            => LET out == SplitLines(SubSeq(f[t], 1, Len(f[t]) - 1))
                   msg == SplitLines(record[t].args)
                   hw  == DisplayWidth(out[1]) - Len(msg[1])
               IN  /\ Len(out) = Len(msg)
                   /\ \A i \in 2..Len(msg) : out[i] = Spaces(hw) \o msg[i]

\* The collector's name of a level, as the claim lists them.
CollectorName(level) ==
    CASE level = "Trace" -> <<"t", "r", "a", "c", "e">>
      [] level = "Debug" -> <<"d", "e", "b", "u", "g">>
      [] level = "Info"  -> <<"i", "n", "f", "o">>
      [] level = "Warn"  -> <<"w", "a", "r", "n", "i", "n", "g">>
      [] level = "Error" -> <<"e", "r", "r", "o", "r">>

\* C8: the event sent for a record has the module path as name, the message
\* as text, and the tags "level:<name>" then "module:<path>".
C8_EventPayload ==
    \A t \in Threads : \A i \in 1..Len(sent[t]) :
        LET e == sent[t][i].event
            r == record[t]
        IN  /\ e.name = r.module_path[1]
            /\ e.text = r.args
            /\ Len(e.tags) = 2
            /\ e.tags[1] = <<"l", "e", "v", "e", "l", ":">> \o CollectorName(r.level)
            /\ e.tags[2] = <<"m", "o", "d", "u", "l", "e", ":">> \o r.module_path[1]

C8_Witness ==
    \E t \in Threads :
        /\ record[t].level = "Warn"
        /\ Len(sent[t]) = 1
        /\ sent[t][1].event.tags[1] =
               <<"l", "e", "v", "e", "l", ":", "w", "a", "r", "n", "i", "n", "g">>
        /\ Len(SplitLines(sent[t][1].event.text)) > 1

\* C9: the bytes of one record are contiguous on the shared destination, and
\* a call that returned Ok has its whole block there, ending in a newline.
C9_NoInterleavedOutput ==
    /\ \A i, k \in 1..Len(dest) :
           (i < k /\ dest[i].call = dest[k].call)
               => \A j \in i..k : dest[j].call = dest[i].call
    /\ \A t \in Threads :
           (pc[t] = "returned" /\ result[t] = "Ok")
               => LET b == BytesOn(dest, t)
                      n == Len(record[t].args)
                  IN  /\ Len(b) > n + 1
                      /\ b[1] = " "
                      /\ b[Len(b)] = "\n"
                      /\ SubSeq(b, Len(b) - n, Len(b) - 1) = record[t].args

C9_Witness ==
    \E t, u \in Threads :
        /\ t # u
        /\ pc[t] = "returned" /\ result[t] = "Ok"
        /\ pc[u] = "returned" /\ result[u] = "Ok"
        /\ record[t] # record[u]
        /\ Len(dest) = 2

\* The padded module field of a line: what stands between the bold escape
\* and the reset that follows it.
ModuleField(line) ==
    LET a == CHOOSE i \in 1..Len(line) : line[i] = "ESC[1m"
        b == CHOOSE i \in (a + 1)..Len(line) :
                 line[i] = "ESC[0m" /\ \A j \in (a + 1)..(i - 1) : line[j] # "ESC[0m"
    IN  SubSeq(line, a + 1, b - 1)

\* C10: a call on a record with module path m pads m to max(v, len(m)) where
\* v is the value it loaded, m itself kept whole; a call on a record without
\* a module path neither loads nor changes MAX_MODULE_WIDTH.
C10_PaddingWidth ==
    [][\A t \in Threads :
          LET r == record'[t]
          IN  /\ (HasModule(r) /\ pc'[t] \in {"event", "write", "print", "returned",
                                            "panicked"})
                     => /\ Len(loaded'[t]) = 1
                        /\ max_width'[t] = Max(loaded'[t][1], Len(r.module_path[1]))
              /\ (HasModule(r) /\ pc'[t] = "print")
                     => LET fld == ModuleField(f'[t])
                            m   == r.module_path[1]
                        IN  /\ Len(fld) = Max(loaded'[t][1], Len(m))
                            /\ SubSeq(fld, 1, Len(m)) = m
                            /\ \A i \in (Len(m) + 1)..Len(fld) : fld[i] = " "
              /\ (~HasModule(r) /\ pc'[t] # pc[t])
                     => /\ MAX_MODULE_WIDTH' = MAX_MODULE_WIDTH
                        /\ loaded'[t] = <<>>]_vars

C10_Witness ==
    \E t, u \in Threads :
        /\ HasModule(record[t]) /\ pc[t] = "print"
        /\ loaded[t][1] > Len(record[t].module_path[1])
        /\ Len(ModuleField(f[t])) = loaded[t][1]
        /\ HasModule(record[u]) /\ Finished(u)
        /\ loaded[u][1] < Len(record[u].module_path[1])

\* C4: of the callers that reached the installation, the first returns Ok and
\* its logger stays installed; every other returns SetLoggerError.
C4_InitOnce ==
    /\ \A c \in Callers :
           ipc[c] = "done"
               => iresult[c] = (IF order[1] = c THEN "Ok" ELSE "SetLoggerError")
    /\ order # <<>>
           => /\ Len(logger) = 1
              /\ logger[1].owner = order[1]
              /\ logger[1].filter = builder[order[1]][1]

C4_Witness ==
    \E c, d \in Callers :
        /\ ipc[c] = "done" /\ iresult[c] = "Ok" /\ env[envName[c]] # Unset
        /\ ipc[d] = "done" /\ iresult[d] = "SetLoggerError"
        /\ env[envName[d]] = Unset
====
